---- MODULE Spec2Model ----
(***************************************************************************)
(* petty: a terminal virtual pet.  The model covers the pet (src/pet.rs),  *)
(* the start-up and exit code of main with the batch catch-up              *)
(* apply_elapsed_time_effects (src/main.rs), the session loop run_ui       *)
(* (src/ui.rs) and the persisted state (src/state.rs).  The pet's name is  *)
(* immutable and read by nothing but the renderer; it is left out.         *)
(***************************************************************************)
EXTENDS Integers, Sequences, FiniteSets, TLC

VARIABLES
    pc,               \* "off": no process; "loop"/"tail": main inside the catch-up; "ui": run_ui's loop;
                      \* in SpecPet, "test" and then the name of the operation called
    pet,              \* the Pet owned by main
    disk,             \* ~/.petty/state.json: NoState or the saved Pet
    now,              \* Utc::now(), in seconds
    elapsed_seconds,  \* main's local elapsed_seconds
    i,                \* intervals applied so far by the for loop of the catch-up
    seconds_elapsed,  \* run_ui's tick counter
    input_buffer,     \* run_ui's input_buffer
    died,             \* history: health was 0 at some point of this process
    launches,         \* history: processes started so far
    keys,             \* history: key events so far
    last_key,         \* history: the last key event of this session, "none" before the first
    typed             \* history: the key events of this session, in order

vars == <<pc, pet, disk, now, elapsed_seconds, i, seconds_elapsed, input_buffer,
          died, launches, keys, last_key, typed>>

----------------------------------------------------------------------------
(* Bounds of the exploration *)

MaxTicks == 4

MaxKeys == 3

MaxLaunches == 2

\* Key events of a session of SpecTyping.
MaxTyped == 6

\* Ticks of a session of SpecNeglect.
MaxNeglectTicks == 600

----------------------------------------------------------------------------
(* Integer types *)

U8_MAX == 255

ABANDON_SECONDS == 3 * 24 * 60 * 60

\* u8::saturating_add
saturating_add(x, d) == IF x + d > U8_MAX THEN U8_MAX ELSE x + d

\* Mutant: the subtraction wraps around instead of saturating.
wrapping_sub(x, d) == (x - d) % (U8_MAX + 1)

\* u8::saturating_sub
saturating_sub(x, d) == IF x - d < 0 THEN 0 ELSE x - d

\* u32::saturating_add, for age.  The ages of the model stay far below u32::MAX
\* (2^32 - 1, beyond the integers of the model checker), where it is the sum.
saturating_add_u32(x, d) == x + d

\* `v as u8` of a non-negative i64: the low eight bits
as_u8(v) == v % 256

\* `v as u32` of a non-negative i64 below 2^32: the value
as_u32(v) == v

----------------------------------------------------------------------------
(* src/pet.rs *)

PetStatus == {"Alive", "Sick", "Abandoned"}

NoState == [none |-> TRUE]

Pet_new(t) ==
    [age |-> 0, health |-> 100, hunger |-> 0, cleanliness |-> 100, mood |-> 100,
     is_sleeping |-> FALSE, status |-> "Alive", last_seen |-> t, debug_mode |-> FALSE]

\* Mutant: feeding without the saturation at either bound.
feed_unsaturated(p) ==
    [p EXCEPT !.hunger = p.hunger - 20,
              !.health = p.health + 5]

feed(p) ==
    [p EXCEPT !.hunger = saturating_sub(p.hunger, 20),
              !.health = saturating_add(p.health, 5)]

wash(p) == [p EXCEPT !.cleanliness = 100]

play(p) ==
    [p EXCEPT !.mood = saturating_add(p.mood, 10),
              !.hunger = saturating_add(p.hunger, 5)]

sleep(p) == [p EXCEPT !.is_sleeping = ~p.is_sleeping]

train(p) ==
    [p EXCEPT !.health = saturating_add(p.health, 3),
              !.mood = saturating_add(p.mood, 5),
              !.hunger = saturating_add(p.hunger, 10)]

\* Mutant: a pet of age 50 is already elderly.
life_stage_elderly_at_50(p) ==
    IF p.age >= 50 THEN "elderly" ELSE IF p.age > 20 THEN "adult" ELSE "young"

life_stage(p) ==
    IF p.age > 50 THEN "elderly" ELSE IF p.age > 20 THEN "adult" ELSE "young"

----------------------------------------------------------------------------
(* src/main.rs: apply_elapsed_time_effects *)

\* Mutant: the single threshold of the session loop in place of the graded ones.
HungerPenalty_single_threshold(p) == IF p.hunger > 80 THEN 1 ELSE 0

\* The graded penalties of one interval of the batch loop (lines 65-87).
HungerPenalty(p) ==
    IF p.hunger > 90 THEN 3 ELSE IF p.hunger > 80 THEN 2 ELSE IF p.hunger > 70 THEN 1 ELSE 0

CleanlinessPenalty(p) ==
    IF p.cleanliness < 10 THEN 3 ELSE IF p.cleanliness < 20 THEN 2
    ELSE IF p.cleanliness < 30 THEN 1 ELSE 0

MoodPenalty(p) ==
    IF p.mood < 10 THEN 3 ELSE IF p.mood < 20 THEN 2 ELSE IF p.mood < 30 THEN 1 ELSE 0

\* Lines 90-94 (and ui.rs 98-102): the extra decline of an elderly pet.
ElderlyPenalty(p) ==
    IF p.age > 50 /\ (p.hunger > 60 \/ p.cleanliness < 40 \/ p.mood < 40) THEN 1 ELSE 0

\* Lines 101-103: the sickness check of the batch loop.
SicknessCheck(p) ==
    IF p.health < 20 /\ p.status = "Alive" THEN [p EXCEPT !.status = "Sick"] ELSE p

\* One pass of the body of the for loop, up to the death check (lines 60-103).
IntervalRule(p) ==
    LET p1 == [p EXCEPT !.hunger = saturating_add(p.hunger, 2),
                        !.cleanliness = saturating_sub(p.cleanliness, 3)]
        h1 == saturating_sub(p1.health, HungerPenalty(p1))
        h2 == saturating_sub(h1, CleanlinessPenalty(p1))
        h3 == saturating_sub(h2, MoodPenalty(p1))
        h4 == saturating_sub(h3, ElderlyPenalty(p1))
    IN  SicknessCheck([p1 EXCEPT !.health = h4])

\* The for loop over n intervals with its break on health == 0 (lines 58-109).
RECURSIVE IntervalLoop(_, _)
IntervalLoop(p, n) ==
    IF n <= 0 THEN p
    ELSE LET q == IntervalRule(p)
         IN  IF q.health = 0 THEN q ELSE IntervalLoop(q, n - 1)

\* Lines 111-113: aging.
BatchAging(p, e) == [p EXCEPT !.age = saturating_add_u32(p.age, as_u32(e \div 300))]

\* Lines 115-117: mood decline.
BatchMood(p, e) == [p EXCEPT !.mood = saturating_sub(p.mood, as_u8(e * 2))]

\* Lines 119-128: sleep healing.
BatchHealing(p, e) ==
    IF p.is_sleeping
    THEN LET healed == saturating_add(p.health, as_u8(e))
         IN  [p EXCEPT !.health = IF p.age > 50 THEN saturating_sub(healed, as_u8(e))
                                  ELSE healed]
    ELSE p

\* What follows the for loop (lines 111-128).
AfterLoop(p, e) == BatchHealing(BatchMood(BatchAging(p, e), e), e)

\* The whole function, as one value.
apply_elapsed_time_effects(p, e) == AfterLoop(IntervalLoop(p, e \div 3), e)

----------------------------------------------------------------------------
(* src/ui.rs: run_ui *)

\* Mutant: the interval rule of the session without its health penalties.
TickInterval_without_penalties(p) ==
    [p EXCEPT !.hunger = saturating_add(p.hunger, 2),
              !.cleanliness = saturating_sub(p.cleanliness, 3)]

\* Lines 83-106: what a tick does when the counter is a multiple of 3.
TickInterval(p) ==
    LET p1 == [p EXCEPT !.hunger = saturating_add(p.hunger, 2),
                        !.cleanliness = saturating_sub(p.cleanliness, 3)]
        h1 == IF p1.hunger > 80 THEN saturating_sub(p1.health, 1) ELSE p1.health
        h2 == IF p1.cleanliness < 20 THEN saturating_sub(h1, 1) ELSE h1
        h3 == IF p1.mood < 20 THEN saturating_sub(h2, 1) ELSE h2
        h4 == saturating_sub(h3, ElderlyPenalty(p1))
    IN  [p1 EXCEPT !.health = h4]

\* Lines 67-70: aging in the session.
TickAging(p, s) ==
    IF s > 0 /\ s % 300 = 0 THEN [p EXCEPT !.age = saturating_add_u32(p.age, 1)] ELSE p

\* Lines 72-77: a tick of a sleeping pet.
TickSleeping(p) ==
    LET healed == saturating_add(p.health, 1)
    IN  [p EXCEPT !.health = IF life_stage(p) = "elderly" THEN saturating_sub(healed, 1)
                             ELSE healed]

\* Lines 78-108: a tick of a pet that is awake.
TickAwake(p, s) ==
    LET p1 == IF p.mood > 0 THEN [p EXCEPT !.mood = saturating_sub(p.mood, 2)] ELSE p
    IN  IF s % 3 = 0 THEN TickInterval(p1) ELSE p1

\* Mutant: a tick that sets a Sick pet back to Alive once its health is 20 or more.
TickRule_with_recovery(p, s) ==
    IF p.debug_mode THEN p
    ELSE LET p1 == TickAging(p, s)
             p2 == IF p1.is_sleeping THEN TickSleeping(p1) ELSE TickAwake(p1, s)
         IN  IF p2.status = "Sick" /\ p2.health >= 20 THEN [p2 EXCEPT !.status = "Alive"]
             ELSE p2

\* Mutant: the timer arm without the test of debug_mode.
TickRule_in_debug_mode(p, s) ==
    LET p1 == TickAging(p, s)
    IN  IF p1.is_sleeping THEN TickSleeping(p1) ELSE TickAwake(p1, s)

\* Lines 61-108: the timer arm, s being the counter after its increment.
TickRule(p, s) ==
    IF p.debug_mode THEN p
    ELSE LET p1 == TickAging(p, s)
         IN  IF p1.is_sleeping THEN TickSleeping(p1) ELSE TickAwake(p1, s)

\* Mutant: Ctrl-C is a key like any other.
QuitKeys_without_CtrlC == {"q"}

\* Keys: a character key is its character; the others are named.
QuitKeys == {"q", "CtrlC"}

CharKeys == {"f", "w", "p", "s", "d", "e", "b", "u", "g", "h", "j", "m", "n", "c", "v", "x"}

OtherKeys == {"Esc", "CtrlZ", "Enter"}

\* Lines 142-150 read key.code only, so Ctrl-Z never reaches them and Ctrl-C always quits.
IsChar(k) == k \in CharKeys

\* input_buffer.ends_with("debug")
ends_with_debug(buf) ==
    Len(buf) >= 5 /\ SubSeq(buf, Len(buf) - 4, Len(buf)) = <<"d", "e", "b", "u", "g">>

\* Mutant: the feed key still feeds in debug mode.
DebugKey_feeding(p, k) ==
    CASE k = "h" -> [p EXCEPT !.hunger = saturating_add(p.hunger, 10)]
      [] k = "j" -> [p EXCEPT !.hunger = saturating_sub(p.hunger, 10)]
      [] k = "m" -> [p EXCEPT !.mood = saturating_add(p.mood, 10)]
      [] k = "n" -> [p EXCEPT !.mood = saturating_sub(p.mood, 10)]
      [] k = "c" -> [p EXCEPT !.cleanliness = saturating_add(p.cleanliness, 10)]
      [] k = "v" -> [p EXCEPT !.cleanliness = saturating_sub(p.cleanliness, 10)]
      [] k = "Esc" -> [p EXCEPT !.debug_mode = FALSE]
      [] k = "f" -> feed(p)
      [] OTHER -> p

\* Lines 127-140: a key in debug mode.
DebugKey(p, k) ==
    CASE k = "h" -> [p EXCEPT !.hunger = saturating_add(p.hunger, 10)]
      [] k = "j" -> [p EXCEPT !.hunger = saturating_sub(p.hunger, 10)]
      [] k = "m" -> [p EXCEPT !.mood = saturating_add(p.mood, 10)]
      [] k = "n" -> [p EXCEPT !.mood = saturating_sub(p.mood, 10)]
      [] k = "c" -> [p EXCEPT !.cleanliness = saturating_add(p.cleanliness, 10)]
      [] k = "v" -> [p EXCEPT !.cleanliness = saturating_sub(p.cleanliness, 10)]
      [] k = "Esc" -> [p EXCEPT !.debug_mode = FALSE]
      [] OTHER -> p

\* Mutant: the keys act on an elderly pet as on any other.
ActionKey_without_modifiers(p, k) ==
    CASE k = "f" -> feed(p)
      [] k = "w" -> wash(p)
      [] k = "p" -> play(p)
      [] k = "s" -> sleep(p)
      [] OTHER -> p

\* Lines 155-179: the action of a key in normal mode.
ActionKey(p, k) ==
    CASE k = "f" -> LET q == feed(p)
                    IN  IF life_stage(q) = "elderly"
                        THEN [q EXCEPT !.health = saturating_sub(q.health, 2)] ELSE q
      [] k = "w" -> LET q == wash(p)
                    IN  IF life_stage(q) = "elderly"
                        THEN [q EXCEPT !.mood = saturating_sub(q.mood, 5)] ELSE q
      [] k = "p" -> LET q == play(p)
                    IN  IF life_stage(q) = "elderly"
                        THEN [q EXCEPT !.health = saturating_sub(q.health, 3)] ELSE q
      [] k = "s" -> sleep(p)
      [] OTHER -> p

\* Mutant: a key that is not a character leaves the buffer as it is.
PushKey_keeping_buffer(buf, k) == IF IsChar(k) THEN Append(buf, k) ELSE buf

\* Lines 142-150: the buffer after a key in normal mode, before the debug check.
PushKey(buf, k) == IF IsChar(k) THEN Append(buf, k) ELSE <<>>

\* Mutant: the keys act on a sleeping pet as on one that is awake.
NormalKey_acting_asleep(p, buf, k) ==
    LET entered == IsChar(k) /\ ends_with_debug(PushKey(buf, k))
        p1 == IF entered THEN [p EXCEPT !.debug_mode = TRUE] ELSE p
    IN  ActionKey(p1, k)

\* Lines 142-179: a key in normal mode; the pet after it.
NormalKey(p, buf, k) ==
    LET entered == IsChar(k) /\ ends_with_debug(PushKey(buf, k))
        p1 == IF entered THEN [p EXCEPT !.debug_mode = TRUE] ELSE p
    IN  IF p1.is_sleeping /\ k # "s" THEN p1 ELSE ActionKey(p1, k)

\* Lines 142-150: the buffer after a key in normal mode.
NormalBuffer(buf, k) ==
    IF IsChar(k) /\ ends_with_debug(PushKey(buf, k)) THEN <<>> ELSE PushKey(buf, k)

\* Mutant: the keys act on an Abandoned pet as on any other.
KeyedPet_without_abandoned_check(p, buf, k) ==
    IF k = "CtrlZ" THEN p
    ELSE IF p.debug_mode THEN DebugKey(p, k)
    ELSE NormalKey(p, buf, k)

\* Lines 48-57 and 119-181: the pet after a key that is not a quit key.
KeyedPet(p, buf, k) ==
    IF p.status = "Abandoned" \/ k = "CtrlZ" THEN p
    ELSE IF p.debug_mode THEN DebugKey(p, k)
    ELSE NormalKey(p, buf, k)

\* Lines 48-57 and 119-181: the buffer after a key that is not a quit key.
KeyedBuffer(p, buf, k) ==
    IF p.status = "Abandoned" \/ k = "CtrlZ" THEN buf
    ELSE IF p.debug_mode THEN (IF k = "Esc" THEN <<>> ELSE buf)
    ELSE NormalBuffer(buf, k)

----------------------------------------------------------------------------
(* The program as a state machine *)

\* src/main.rs 38-50: run_ui has returned; clear or save the state, and exit.
Exit ==
    /\ pc' = "off"
    /\ IF pet.status = "Abandoned" \/ pet.health = 0
       THEN /\ disk' = NoState
            /\ pet' = pet
       ELSE /\ pet' = [pet EXCEPT !.last_seen = now]
            /\ disk' = pet'
    /\ UNCHANGED <<now, elapsed_seconds, i, seconds_elapsed, input_buffer, died, launches>>

\* src/state.rs 23-31 and src/main.rs 24: the stored pet, or a new one.
load_state_or_new == IF disk = NoState THEN Pet_new(now) ELSE disk

\* Mutant: the threshold itself counts as abandonment.
IsAbandoned_at_threshold(e) == e >= ABANDON_SECONDS

\* src/main.rs 31: the abandonment test.
IsAbandoned(e) == e > ABANDON_SECONDS

\* src/main.rs 24-36: start of the process, up to the catch-up.
Launch ==
    /\ pc = "off"
    /\ launches < MaxLaunches
    /\ launches' = launches + 1
    /\ LET loaded == load_state_or_new
           e == now - loaded.last_seen
       IN  /\ elapsed_seconds' = e
           /\ IF IsAbandoned(e)
              THEN /\ pet' = [loaded EXCEPT !.status = "Abandoned"]
                   /\ pc' = "ui"
              ELSE /\ pet' = loaded
                   /\ pc' = IF loaded.status = "Alive" /\ loaded.health > 0
                            THEN "loop" ELSE "ui"
           /\ died' = (loaded.health = 0)
    /\ i' = 0
    /\ seconds_elapsed' = 0
    /\ input_buffer' = <<>>
    /\ last_key' = "none"
    /\ typed' = <<>>
    /\ UNCHANGED <<disk, now, keys>>

\* src/main.rs 58-109: one pass of the for loop of the catch-up.
Interval ==
    /\ pc = "loop"
    /\ i < elapsed_seconds \div 3
    /\ pet' = IntervalRule(pet)
    /\ i' = i + 1
    /\ pc' = IF pet'.health = 0 THEN "tail" ELSE "loop"
    /\ died' = (died \/ pet'.health = 0)
    /\ UNCHANGED <<disk, now, elapsed_seconds, seconds_elapsed, input_buffer, launches, keys,
                   last_key, typed>>

\* src/main.rs 111-128 and 38: the rest of the catch-up; run_ui starts.
FinishCatchUp ==
    /\ \/ pc = "tail"
       \/ pc = "loop" /\ i >= elapsed_seconds \div 3
    /\ pet' = AfterLoop(pet, elapsed_seconds)
    /\ pc' = "ui"
    /\ died' = (died \/ pet'.health = 0)
    /\ UNCHANGED <<disk, now, elapsed_seconds, i, seconds_elapsed, input_buffer, launches, keys,
                   last_key, typed>>

\* src/ui.rs 60-109: the timer arm of the select, one second after the last.
\* An Abandoned pet's loop never polls the ticker (lines 48-57).
Tick ==
    /\ pc = "ui"
    /\ pet.status # "Abandoned"
    /\ seconds_elapsed < MaxTicks
    /\ seconds_elapsed' = seconds_elapsed + 1
    /\ pet' = TickRule(pet, seconds_elapsed')
    /\ now' = now + 1
    /\ died' = (died \/ pet'.health = 0)
    /\ UNCHANGED <<pc, disk, elapsed_seconds, i, input_buffer, launches, keys, last_key, typed>>

\* src/ui.rs 48-57 and 111-182: a key event.
KeyEvent(k) ==
    /\ pc = "ui"
    /\ keys' = keys + 1
    /\ last_key' = k
    /\ typed' = Append(typed, k)
    /\ IF k \in QuitKeys
       THEN Exit
       ELSE /\ pet' = KeyedPet(pet, input_buffer, k)
            /\ input_buffer' = KeyedBuffer(pet, input_buffer, k)
            /\ died' = (died \/ pet'.health = 0)
            /\ UNCHANGED <<pc, disk, now, elapsed_seconds, i, seconds_elapsed, launches>>

\* A key event of a run that counts at most MaxKeys of them.
KeyPress(k) == keys < MaxKeys /\ KeyEvent(k)

\* The time the user stays away between two runs, chosen once per absence.
AwayChoices == {1, 3, 135, 300, ABANDON_SECONDS, ABANDON_SECONDS + 1}

Away(d) ==
    /\ pc = "off"
    /\ disk # NoState
    /\ now = disk.last_seen
    /\ launches < MaxLaunches
    /\ now' = now + d
    /\ UNCHANGED <<pc, pet, disk, elapsed_seconds, i, seconds_elapsed, input_buffer,
                   died, launches, keys, last_key, typed>>

\* The keys of the main specification.
SessionKeys == {"f", "w", "p", "s", "q", "Esc"}

\* A fresh installation: no stored state.
Init ==
    /\ pc = "off"
    /\ disk = NoState
    /\ pet = Pet_new(0)
    /\ now = 0
    /\ elapsed_seconds = 0
    /\ i = 0
    /\ seconds_elapsed = 0
    /\ input_buffer = <<>>
    /\ died = FALSE
    /\ launches = 0
    /\ keys = 0
    /\ last_key = "none"
    /\ typed = <<>>

Next ==
    \/ Launch
    \/ Interval
    \/ FinishCatchUp
    \/ Tick
    \/ \E k \in SessionKeys : KeyPress(k)
    \/ \E d \in AwayChoices : Away(d)

Spec == Init /\ [][Next]_vars

----------------------------------------------------------------------------
(* A session of ticks alone, next to the catch-up over the same time.      *)
(* The session starts where a launch with no elapsed time leaves it: the   *)
(* pet in memory is the stored pet, which the session never writes.        *)

ModeHealths == {1, 3, 19, 20, 25, 100}

ModeHungers == {0, 50, 69, 79, 89, 95}

ModeCleanlinesses == {5, 12, 22, 31, 100}

ModeMoods == {0, 1, 11, 21, 31, 100}

ModeAges == {0, 50, 51}

ModePets ==
    { [age |-> a, health |-> h, hunger |-> g, cleanliness |-> c, mood |-> m,
       is_sleeping |-> z, status |-> "Alive", last_seen |-> 0, debug_mode |-> FALSE] :
        a \in ModeAges, h \in ModeHealths, g \in ModeHungers, c \in ModeCleanlinesses,
        m \in ModeMoods, z \in BOOLEAN }

InitModes ==
    /\ pc = "ui"
    /\ disk \in ModePets
    /\ pet = disk
    /\ now = 0
    /\ elapsed_seconds = 0
    /\ i = 0
    /\ seconds_elapsed = 0
    /\ input_buffer = <<>>
    /\ died = FALSE
    /\ launches = 1
    /\ keys = 0
    /\ last_key = "none"
    /\ typed = <<>>

NextModes == Tick

SpecModes == InitModes /\ [][NextModes]_vars

\* The catch-up over the seconds this session has ticked, from the session's start.
CaughtUp == apply_elapsed_time_effects(disk, seconds_elapsed)

----------------------------------------------------------------------------
(* The catch-up alone, from stored pets and absences drawn from small sets *)

BatchHealths == {1, 25, 100}

BatchHungers == {0, 60, 89, 95}

BatchCleanlinesses == {40, 100, 132, 255}

BatchMoods == {5, 30, 100}

BatchAges == {0, 50, 51}

BatchElapsed == {0, 2, 3, 9, 99, 102, 105, 128, 300}

BatchPets ==
    { [age |-> a, health |-> h, hunger |-> g, cleanliness |-> c, mood |-> m,
       is_sleeping |-> z, status |-> "Alive", last_seen |-> 0, debug_mode |-> FALSE] :
        a \in BatchAges, h \in BatchHealths, g \in BatchHungers, c \in BatchCleanlinesses,
        m \in BatchMoods, z \in BOOLEAN }

InitBatch ==
    /\ pc = "off"
    /\ disk \in BatchPets
    /\ pet = disk
    /\ now \in BatchElapsed
    /\ elapsed_seconds = 0
    /\ i = 0
    /\ seconds_elapsed = 0
    /\ input_buffer = <<>>
    /\ died = FALSE
    /\ launches = 0
    /\ keys = 0
    /\ last_key = "none"
    /\ typed = <<>>

NextBatch ==
    \/ Launch
    \/ Interval
    \/ FinishCatchUp

SpecBatch == InitBatch /\ [][NextBatch]_vars

\* FinishCatchUp is the tail of apply_elapsed_time_effects after the steps of Interval.
BatchStepsAgree ==
    (pc = "ui" /\ launches = 1 /\ disk.health > 0) => pet = apply_elapsed_time_effects(disk, elapsed_seconds)

----------------------------------------------------------------------------
(* A launch from a stored pet of any age and either stored status, and the *)
(* session that follows it. A stored pet has health above 0: the state of  *)
(* a dead pet is deleted at exit (src/main.rs 41-47).                      *)

StoredAges == {20, 21, 50, 51}

StoredHealths == {15, 250, 255}

StoredHungers == {0, 65}

StoredStatuses == {"Alive", "Sick"}

StoredElapsed == {0, 3, 10, 300}

StoredPets ==
    { [age |-> a, health |-> h, hunger |-> g, cleanliness |-> 100, mood |-> 100,
       is_sleeping |-> z, status |-> st, last_seen |-> 0, debug_mode |-> FALSE] :
        a \in StoredAges, h \in StoredHealths, g \in StoredHungers,
        z \in BOOLEAN, st \in StoredStatuses }

InitStored ==
    /\ pc = "off"
    /\ disk \in StoredPets
    /\ pet = disk
    /\ now \in StoredElapsed
    /\ elapsed_seconds = 0
    /\ i = 0
    /\ seconds_elapsed = 0
    /\ input_buffer = <<>>
    /\ died = FALSE
    /\ launches = 0
    /\ keys = 0
    /\ last_key = "none"
    /\ typed = <<>>

\* The action keys of a session.
StoredKeys == {"f", "w", "p", "s"}

NextStored ==
    \/ Launch
    \/ Interval
    \/ FinishCatchUp
    \/ Tick
    \/ \E k \in StoredKeys : KeyPress(k)

SpecStored == InitStored /\ [][NextStored]_vars

----------------------------------------------------------------------------
(* The operations of Pet called directly on a pet, as the tests of         *)
(* src/pet.rs call them: pc is "test" before the call and the name of the  *)
(* operation after it; test_sleep calls sleep twice.                       *)

PetHealths == {0, 100, 250, 253, 255}

PetHungers == {0, 5, 19, 20, 50, 246, 251, 255}

PetCleanlinesses == {0, 50, 100, 255}

PetMoods == {0, 100, 246, 251, 255}

PetAges == {0, 51}

TestPets ==
    { [age |-> a, health |-> h, hunger |-> g, cleanliness |-> c, mood |-> m,
       is_sleeping |-> z, status |-> st, last_seen |-> 0, debug_mode |-> dm] :
        a \in PetAges, h \in PetHealths, g \in PetHungers, c \in PetCleanlinesses,
        m \in PetMoods, z \in BOOLEAN, st \in PetStatus, dm \in BOOLEAN }

InitPet ==
    /\ pc = "test"
    /\ pet \in TestPets
    /\ disk = NoState
    /\ now = 0
    /\ elapsed_seconds = 0
    /\ i = 0
    /\ seconds_elapsed = 0
    /\ input_buffer = <<>>
    /\ died = FALSE
    /\ launches = 0
    /\ keys = 0
    /\ last_key = "none"
    /\ typed = <<>>

CallFeed ==
    /\ pc = "test"
    /\ pet' = feed(pet)
    /\ pc' = "feed"
    /\ UNCHANGED <<disk, now, elapsed_seconds, i, seconds_elapsed, input_buffer, died,
                   launches, keys, last_key, typed>>

CallWash ==
    /\ pc = "test"
    /\ pet' = wash(pet)
    /\ pc' = "wash"
    /\ UNCHANGED <<disk, now, elapsed_seconds, i, seconds_elapsed, input_buffer, died,
                   launches, keys, last_key, typed>>

CallPlay ==
    /\ pc = "test"
    /\ pet' = play(pet)
    /\ pc' = "play"
    /\ UNCHANGED <<disk, now, elapsed_seconds, i, seconds_elapsed, input_buffer, died,
                   launches, keys, last_key, typed>>

CallTrain ==
    /\ pc = "test"
    /\ pet' = train(pet)
    /\ pc' = "train"
    /\ UNCHANGED <<disk, now, elapsed_seconds, i, seconds_elapsed, input_buffer, died,
                   launches, keys, last_key, typed>>

CallSleep ==
    /\ pc \in {"test", "sleep"}
    /\ pet' = sleep(pet)
    /\ pc' = IF pc = "test" THEN "sleep" ELSE "sleep_sleep"
    /\ UNCHANGED <<disk, now, elapsed_seconds, i, seconds_elapsed, input_buffer, died,
                   launches, keys, last_key, typed>>

NextPet ==
    \/ CallFeed
    \/ CallWash
    \/ CallPlay
    \/ CallTrain
    \/ CallSleep

SpecPet == InitPet /\ [][NextPet]_vars

----------------------------------------------------------------------------
(* A session with the keys of debug mode. debug_mode is stored with the    *)
(* pet (src/pet.rs 22), so a session starts in debug mode when the last    *)
(* one was quit in it. As in SpecModes the session starts where a launch   *)
(* with no elapsed time leaves it.                                         *)

DebugLevels == {5, 250}

DebugAges == {0, 51}

DebugPets ==
    { [age |-> a, health |-> 100, hunger |-> g, cleanliness |-> g, mood |-> g,
       is_sleeping |-> z, status |-> "Alive", last_seen |-> 0, debug_mode |-> dm] :
        a \in DebugAges, g \in DebugLevels, z \in BOOLEAN, dm \in BOOLEAN }

InitDebug ==
    /\ pc = "ui"
    /\ disk \in DebugPets
    /\ pet = disk
    /\ now = 0
    /\ elapsed_seconds = 0
    /\ i = 0
    /\ seconds_elapsed = 0
    /\ input_buffer = <<>>
    /\ died = FALSE
    /\ launches = 1
    /\ keys = 0
    /\ last_key = "none"
    /\ typed = <<>>

\* The adjustment keys of debug mode (src/ui.rs 129-134).
AdjustKeys == {"h", "j", "m", "n", "c", "v"}

DebugSessionKeys == AdjustKeys \cup {"Esc", "Enter", "CtrlZ", "f", "w", "p", "s", "x"}

NextDebug ==
    \/ Tick
    \/ \E k \in DebugSessionKeys : KeyPress(k)

SpecDebug == InitDebug /\ [][NextDebug]_vars

----------------------------------------------------------------------------
(* A session of keys alone, long enough to type the word that enters debug *)
(* mode, from a fresh pet awake or asleep.                                 *)

TypingPets == { [Pet_new(0) EXCEPT !.is_sleeping = z] : z \in BOOLEAN }

InitTyping ==
    /\ pc = "ui"
    /\ disk \in TypingPets
    /\ pet = disk
    /\ now = 0
    /\ elapsed_seconds = 0
    /\ i = 0
    /\ seconds_elapsed = 0
    /\ input_buffer = <<>>
    /\ died = FALSE
    /\ launches = 1
    /\ keys = 0
    /\ last_key = "none"
    /\ typed = <<>>

\* The letters of the word, an action key, a key that is no character, and suspend.
TypingKeys == {"d", "e", "b", "u", "g", "f", "Esc", "CtrlZ"}

\* A key event of a session that counts at most MaxTyped of them.
TypeKey(k) == keys < MaxTyped /\ KeyEvent(k)

NextTyping == \E k \in TypingKeys : TypeKey(k)

SpecTyping == InitTyping /\ [][NextTyping]_vars

----------------------------------------------------------------------------
(* A launch and a session with both quit keys, from stored pets that the   *)
(* launch leaves in each kind of state: in normal or debug mode, awake or  *)
(* asleep, dead after the catch-up (health 1 and hunger 95 stored), or     *)
(* Abandoned.                                                              *)

QuitHealths == {1, 100}

QuitElapsed == {0, 300, ABANDON_SECONDS + 1}

QuitPets ==
    { [age |-> 0, health |-> h, hunger |-> 95, cleanliness |-> 100, mood |-> 100,
       is_sleeping |-> z, status |-> st, last_seen |-> 0, debug_mode |-> dm] :
        h \in QuitHealths, z \in BOOLEAN, st \in StoredStatuses, dm \in BOOLEAN }

InitQuit ==
    /\ pc = "off"
    /\ disk \in QuitPets
    /\ pet = disk
    /\ now \in QuitElapsed
    /\ elapsed_seconds = 0
    /\ i = 0
    /\ seconds_elapsed = 0
    /\ input_buffer = <<>>
    /\ died = FALSE
    /\ launches = 0
    /\ keys = 0
    /\ last_key = "none"
    /\ typed = <<>>

QuitSessionKeys == {"q", "CtrlC", "f", "s", "Esc", "Enter", "CtrlZ"}

NextQuit ==
    \/ Launch
    \/ Interval
    \/ FinishCatchUp
    \/ Tick
    \/ \E k \in QuitSessionKeys : KeyPress(k)

SpecQuit == InitQuit /\ [][NextQuit]_vars

----------------------------------------------------------------------------
(* A long session in which no key is ever pressed, from an awake pet in    *)
(* normal mode. The ticker of src/ui.rs 40 fires every second and the      *)
(* select of line 59 polls it on every pass of the loop, so a tick that    *)
(* stays possible is taken: weak fairness of the tick.                     *)

NeglectHealths == {1, 100, 255}

NeglectHungers == {0, 95}

NeglectCleanlinesses == {0, 100}

NeglectMoods == {0, 100, 255}

NeglectAges == {0, 51}

NeglectPets ==
    { [age |-> a, health |-> h, hunger |-> g, cleanliness |-> c, mood |-> m,
       is_sleeping |-> FALSE, status |-> st, last_seen |-> 0, debug_mode |-> FALSE] :
        a \in NeglectAges, h \in NeglectHealths, g \in NeglectHungers,
        c \in NeglectCleanlinesses, m \in NeglectMoods, st \in StoredStatuses }

InitNeglect ==
    /\ pc = "ui"
    /\ disk \in NeglectPets
    /\ pet = disk
    /\ now = 0
    /\ elapsed_seconds = 0
    /\ i = 0
    /\ seconds_elapsed = 0
    /\ input_buffer = <<>>
    /\ died = FALSE
    /\ launches = 1
    /\ keys = 0
    /\ last_key = "none"
    /\ typed = <<>>

\* src/ui.rs 60-109: the timer arm of the select, in a session that counts at most
\* MaxNeglectTicks ticks.
LongTick ==
    /\ pc = "ui"
    /\ pet.status # "Abandoned"
    /\ seconds_elapsed < MaxNeglectTicks
    /\ seconds_elapsed' = seconds_elapsed + 1
    /\ pet' = TickRule(pet, seconds_elapsed')
    /\ now' = now + 1
    /\ died' = (died \/ pet'.health = 0)
    /\ UNCHANGED <<pc, disk, elapsed_seconds, i, input_buffer, launches, keys, last_key, typed>>

NextNeglect == LongTick

SpecNeglect == InitNeglect /\ [][NextNeglect]_vars /\ WF_vars(LongTick)

----------------------------------------------------------------------------
(* Claims *)

Clamp(v) == IF v < 0 THEN 0 ELSE IF v > U8_MAX THEN U8_MAX ELSE v

InSession == pc = "ui"

\* A step of the session that is not the exit.
StaysInSession == pc = "ui" /\ pc' = "ui"

\* C1: after N ticks and no key, hunger, cleanliness and mood are those of a
\* catch-up over N seconds from the pet the session started with.
BatchAndTicksAgreeOnGauges ==
    InSession =>
        /\ pet.hunger = CaughtUp.hunger
        /\ pet.cleanliness = CaughtUp.cleanliness
        /\ pet.mood = CaughtUp.mood

\* C2: after N ticks and no key, outside debug mode, health, status and age are
\* those of a catch-up over N seconds from the pet the session started with.
BatchAndTicksAgreeOnHealth ==
    (InSession /\ ~pet.debug_mode) =>
        /\ pet.health = CaughtUp.health
        /\ pet.status = CaughtUp.status
        /\ pet.age = CaughtUp.age

\* C3 as stated: from a fresh pet, outside debug mode, every gauge is within [0, 100].
GaugesWithin100 ==
    ~pet.debug_mode =>
        /\ pet.health \in 0..100
        /\ pet.hunger \in 0..100
        /\ pet.cleanliness \in 0..100
        /\ pet.mood \in 0..100

\* C3 as amended: from a fresh pet that never enters debug mode, health, hunger and
\* mood are within [0, 255] and cleanliness is within [0, 100].
GaugesWithinRange ==
    /\ pet.health \in 0..U8_MAX
    /\ pet.hunger \in 0..U8_MAX
    /\ pet.mood \in 0..U8_MAX
    /\ pet.cleanliness \in 0..100

\* A gauge is above 100 in a session that followed a quit, an absence and a catch-up.
GaugeAbove100AfterRelaunch ==
    /\ InSession
    /\ launches >= 2
    /\ elapsed_seconds > 0
    /\ ~pet.debug_mode
    /\ pet.health > 100

\* C4: every mutation of a gauge gives the intended change clamped to [0, 255]:
\* the interval rule, the mood decline and the sleep healing of the catch-up over
\* elapsed_seconds, the tick of the session, and the keys.
KeyDeltas == {0, -20, -10, -5, -3, -2, 2, 3, 5, 10}

GaugeMutationsSaturate ==
    [][/\ pet'.health \in 0..U8_MAX /\ pet'.hunger \in 0..U8_MAX
       /\ pet'.cleanliness \in 0..U8_MAX /\ pet'.mood \in 0..U8_MAX
       /\ (pc = "loop" /\ pc' # "ui") =>
             /\ pet'.hunger = Clamp(pet.hunger + 2)
             /\ pet'.cleanliness = Clamp(pet.cleanliness - 3)
       /\ (pc \in {"loop", "tail"} /\ pc' = "ui") =>
             /\ pet'.mood = Clamp(pet.mood - 2 * elapsed_seconds)
             /\ pet.is_sleeping =>
                   pet'.health = IF pet'.age > 50
                                 THEN Clamp(Clamp(pet.health + elapsed_seconds) - elapsed_seconds)
                                 ELSE Clamp(pet.health + elapsed_seconds)
       /\ (StaysInSession /\ seconds_elapsed' # seconds_elapsed /\ ~pet.debug_mode) =>
             /\ pet'.mood = IF pet.is_sleeping THEN pet.mood ELSE Clamp(pet.mood - 2)
             /\ pet'.hunger \in {pet.hunger, Clamp(pet.hunger + 2)}
             /\ pet'.cleanliness \in {pet.cleanliness, Clamp(pet.cleanliness - 3)}
       /\ (StaysInSession /\ keys' # keys) =>
             /\ pet'.health \in {Clamp(pet.health + d) : d \in KeyDeltas}
             /\ pet'.hunger \in {Clamp(pet.hunger + d) : d \in KeyDeltas}
             /\ pet'.mood \in {Clamp(pet.mood + d) : d \in KeyDeltas}
             /\ pet'.cleanliness \in {100} \cup {Clamp(pet.cleanliness + d) : d \in KeyDeltas}
      ]_vars

\* C5: once main has compared the absence with the threshold, the pet is
\* Abandoned exactly when the absence is strictly longer than three days.
AbandonedIffStrictlyLonger ==
    pc # "off" => (pet.status = "Abandoned" <=> elapsed_seconds > ABANDON_SECONDS)

\* A session after an absence of exactly the threshold, the pet not Abandoned.
AbsenceOfExactlyThreshold ==
    /\ InSession
    /\ elapsed_seconds = ABANDON_SECONDS
    /\ pet.status # "Abandoned"

\* C6: an Abandoned pet is the stored pet with nothing but the status changed,
\* run_ui starts with no catch-up, and no step of the session changes the pet.
AbandonedIsFrozen ==
    [][/\ (pc = "off" /\ pc' # "off" /\ pet'.status = "Abandoned") =>
             /\ pc' = "ui"
             /\ pet' = [load_state_or_new EXCEPT !.status = "Abandoned"]
       /\ (InSession /\ pet.status = "Abandoned") => pet' = pet
      ]_vars

\* The feed key has been pressed in the session of an Abandoned pet, which goes on.
KeyPressedWhileAbandoned ==
    /\ InSession
    /\ pet.status = "Abandoned"
    /\ last_key = "f"

\* C7: at exit the stored state is cleared if the pet was abandoned or its health
\* reached 0 during the catch-up or the session of this run; otherwise the pet is
\* saved with last_seen the time of the exit.
ExitClearsDeadOrAbandoned ==
    [][(pc = "ui" /\ pc' = "off") =>
          IF died \/ pet.status = "Abandoned"
          THEN disk' = NoState
          ELSE disk' = [pet EXCEPT !.last_seen = now]
      ]_vars

\* C8: once the catch-up has brought health to 0, the rest of the catch-up leaves
\* hunger and cleanliness as they are and health at 0.
DeathEndsCatchUp ==
    [][(pc \in {"loop", "tail"} /\ pet.health = 0) =>
          /\ pet'.health = 0
          /\ pet'.hunger = pet.hunger
          /\ pet'.cleanliness = pet.cleanliness
      ]_vars

\* The stored pet of C9: health 100, and for 34 intervals the hunger above 90 and
\* no penalty from cleanliness, mood or age.
OnlyHungerPenalty(p) ==
    /\ p.status = "Alive"
    /\ p.health = 100
    /\ p.hunger + 2 > 90
    /\ p.cleanliness - 3 * 34 >= 30
    /\ p.mood >= 30
    /\ p.age <= 50

\* C9: from such a pet the loop of the catch-up takes 3 of health per interval,
\* health is 0 after the 34th interval and not before, and the loop stops there.
DeadAfterExactly34Intervals ==
    (pc # "off" /\ OnlyHungerPenalty(disk)) =>
        /\ i <= 34
        /\ i <= elapsed_seconds \div 3
        /\ pc \in {"loop", "tail"} =>
              /\ pet.health = Clamp(100 - 3 * i)
              /\ (pet.health = 0 <=> i = 34)
              /\ (pc = "tail" <=> i = 34)
        /\ pc = "ui" => i = (IF elapsed_seconds \div 3 < 34 THEN elapsed_seconds \div 3 ELSE 34)

\* The loop has stopped after 34 intervals with more of them left in the batch.
StoppedAt34WithIntervalsLeft ==
    /\ OnlyHungerPenalty(disk)
    /\ pc = "tail"
    /\ i = 34
    /\ pet.health = 0
    /\ elapsed_seconds \div 3 > 34

\* The status a step starts from: the stored one (Alive for a new pet) when the
\* process starts, the pet's otherwise.
StatusBefore == IF pc = "off" THEN load_state_or_new.status ELSE pet.status

\* C10: the status changes only from Alive to Sick or to Abandoned.
StatusOnlyWorsens ==
    [][\/ pet'.status = StatusBefore
       \/ StatusBefore = "Alive" /\ pet'.status = "Sick"
       \/ pet'.status = "Abandoned"
      ]_vars

\* A Sick pet whose health is 20 or more again, in a session with a tick and a feed.
SickWithHealthRestored ==
    /\ InSession
    /\ pet.status = "Sick"
    /\ pet.health >= 20
    /\ seconds_elapsed >= 1
    /\ last_key = "f"

\* A pass of the interval rule: one pass of the catch-up loop, or a session tick
\* of an awake pet, outside debug mode, on a counter that is a multiple of 3.
IntervalStep ==
    \/ pc = "loop" /\ i' = i + 1
    \/ /\ StaysInSession
       /\ seconds_elapsed' = seconds_elapsed + 1
       /\ seconds_elapsed' % 3 = 0
       /\ ~pet.debug_mode
       /\ ~pet.is_sleeping

\* C11: a pass of the interval rule, in the catch-up or in the session, that leaves
\* health below 20 on a pet whose status was Alive makes the pet Sick.
SickAtInterval ==
    [][(IntervalStep /\ pet.status = "Alive" /\ pet'.health < 20) => pet'.status = "Sick"]_vars

\* The session has just started: no tick and no key since the launch.
SessionStart == pc = "ui" /\ seconds_elapsed = 0 /\ last_key = "none"

\* C12: when the session starts after an absence that is not an abandonment, the pet
\* is the loaded pet after one catch-up over the whole absence, whether the stored
\* status was Alive or Sick.
CatchUpWhateverStatus ==
    (SessionStart /\ ~IsAbandoned(elapsed_seconds)) =>
        pet = apply_elapsed_time_effects(load_state_or_new, elapsed_seconds)

\* C13: each operation of Pet changes its documented fields, each change clamped to
\* [0, 255], and no other field; two calls of sleep give back the pet.
ModelActionsExact ==
    [][/\ pc' = "feed" =>
            pet' = [pet EXCEPT !.hunger = Clamp(pet.hunger - 20),
                               !.health = Clamp(pet.health + 5)]
       /\ pc' = "wash" => pet' = [pet EXCEPT !.cleanliness = 100]
       /\ pc' = "play" =>
            pet' = [pet EXCEPT !.mood = Clamp(pet.mood + 10),
                               !.hunger = Clamp(pet.hunger + 5)]
       /\ pc' = "train" =>
            pet' = [pet EXCEPT !.health = Clamp(pet.health + 3),
                               !.mood = Clamp(pet.mood + 5),
                               !.hunger = Clamp(pet.hunger + 10)]
       /\ pc' \in {"sleep", "sleep_sleep"} =>
            /\ pet' = [pet EXCEPT !.is_sleeping = ~pet.is_sleeping]
            /\ sleep(pet') = pet]_vars

\* feed at the lower bound of hunger: a pet of health 100 and hunger 5, 19 or 20.
FedToZeroHunger == pc = "feed" /\ pet.hunger = 0 /\ pet.health = 105

\* The classification of an age, with the boundaries of C14.
StageOfAge(a) == IF a <= 20 THEN "young" ELSE IF a <= 50 THEN "adult" ELSE "elderly"

\* 1 for a pet of age 51 or more, 0 below.
ElderlyAt51(p) == IF p.age >= 51 THEN 1 ELSE 0

\* A tick of the session outside debug mode.
TickStep == StaysInSession /\ seconds_elapsed' = seconds_elapsed + 1 /\ ~pet.debug_mode

\* A key of the session that reaches the actions of normal mode (src/ui.rs 155-179).
ActionStep(k) ==
    /\ StaysInSession
    /\ keys' = keys + 1
    /\ last_key' = k
    /\ pet.status # "Abandoned"
    /\ ~pet.debug_mode
    /\ ~pet.is_sleeping

\* C14: life_stage is young up to age 20, adult from 21 to 50 and elderly from 51, and
\* the elderly rules of the tick, of the catch-up and of the keys apply from age 51.
LifeStageBoundaries ==
    [][/\ life_stage(pet') = StageOfAge(pet'.age)
       /\ (TickStep /\ pet.is_sleeping) =>
            pet'.health = Clamp(Clamp(pet.health + 1) - ElderlyAt51(pet'))
       /\ (TickStep /\ ~pet.is_sleeping /\ seconds_elapsed' % 3 = 0) =>
            pet'.health = Clamp(pet.health
                                - (IF pet'.hunger > 80 THEN 1 ELSE 0)
                                - (IF pet'.cleanliness < 20 THEN 1 ELSE 0)
                                - (IF pet'.mood < 20 THEN 1 ELSE 0)
                                - (IF pet'.hunger > 60 \/ pet'.cleanliness < 40 \/ pet'.mood < 40
                                   THEN ElderlyAt51(pet') ELSE 0))
       /\ (pc = "loop" /\ i' = i + 1) =>
            pet'.health = Clamp(pet.health - HungerPenalty(pet') - CleanlinessPenalty(pet')
                                - MoodPenalty(pet')
                                - (IF pet'.hunger > 60 \/ pet'.cleanliness < 40 \/ pet'.mood < 40
                                   THEN ElderlyAt51(pet') ELSE 0))
       /\ (pc \in {"loop", "tail"} /\ pc' = "ui" /\ pet.is_sleeping) =>
            LET healed == Clamp(pet.health + as_u8(elapsed_seconds))
            IN  pet'.health = Clamp(healed - ElderlyAt51(pet') * as_u8(elapsed_seconds))
       /\ ActionStep("f") =>
            pet'.health = Clamp(Clamp(pet.health + 5) - 2 * ElderlyAt51(pet))
       /\ ActionStep("w") => pet'.mood = Clamp(pet.mood - 5 * ElderlyAt51(pet))
       /\ ActionStep("p") => pet'.health = Clamp(pet.health - 3 * ElderlyAt51(pet))]_vars

\* A pet of age 51 washed at the start of the session: the wash costs it 5 of mood.
ElderlyAt51Washed ==
    InSession /\ pet.age = 51 /\ last_key = "w" /\ seconds_elapsed = 0 /\ keys = 1
        /\ elapsed_seconds = 0 /\ pet.mood = 95

\* C15: time that passes over a sleeping pet, as ticks of the session or as the
\* catch-up of a launch, leaves its hunger and cleanliness as they were, and a pass
\* of the catch-up loop leaves its health as it was.
SleepPausesIntervalRules ==
    [][(pet.is_sleeping /\ (TickStep \/ pc \in {"loop", "tail"})) =>
            /\ pet'.hunger = pet.hunger
            /\ pet'.cleanliness = pet.cleanliness
            /\ pc = "loop" /\ pc' # "ui" => pet'.health = pet.health]_vars

\* The healing step of a sleeping pet that is elderly when it heals: a tick of the
\* session, or the end of the catch-up.
ElderlyHealingStep ==
    /\ pet.is_sleeping
    /\ life_stage(pet') = "elderly"
    /\ TickStep \/ (pc \in {"loop", "tail"} /\ pc' = "ui")

\* C16: the healing step of a sleeping elderly pet leaves its health as it was,
\* whatever the health and the time elapsed.
ElderlySleepHealsNothing == [][ElderlyHealingStep => pet'.health = pet.health]_vars

\* C17: the catch-up over E seconds leaves the mood at max(0, mood - 2 * E).
BatchMoodSaturates ==
    [][(pc \in {"loop", "tail"} /\ pc' = "ui") =>
            pet'.mood = Clamp(pet.mood - 2 * elapsed_seconds)]_vars

\* C18: a tick in debug mode adds 1 to the tick counter and leaves the pet as it was.
DebugTicksMutateNothing ==
    [][(StaysInSession /\ pet.debug_mode /\ seconds_elapsed' # seconds_elapsed) =>
            /\ seconds_elapsed' = seconds_elapsed + 1
            /\ pet' = pet]_vars

\* Three ticks in debug mode over an awake pet: the third is a multiple of 3.
ThreeTicksInDebugMode ==
    InSession /\ pet.debug_mode /\ ~pet.is_sleeping /\ seconds_elapsed = 3 /\ typed = <<>>
        /\ pet = disk

\* A key of the session that reaches the keys of debug mode (src/ui.rs 127-140).
DebugStep ==
    StaysInSession /\ keys' = keys + 1 /\ pet.debug_mode /\ pet.status # "Abandoned"

\* C20: in debug mode h and j move hunger, m and n mood, c and v cleanliness, by 10
\* clamped to [0, 255], and nothing else; Escape clears debug_mode and nothing else;
\* any other key that is not a quit key leaves the pet as it was; no key of debug mode
\* changes health, age or status.
DebugKeysAdjustOneGauge ==
    [][DebugStep =>
        /\ last_key' = "h" => pet' = [pet EXCEPT !.hunger = Clamp(pet.hunger + 10)]
        /\ last_key' = "j" => pet' = [pet EXCEPT !.hunger = Clamp(pet.hunger - 10)]
        /\ last_key' = "m" => pet' = [pet EXCEPT !.mood = Clamp(pet.mood + 10)]
        /\ last_key' = "n" => pet' = [pet EXCEPT !.mood = Clamp(pet.mood - 10)]
        /\ last_key' = "c" => pet' = [pet EXCEPT !.cleanliness = Clamp(pet.cleanliness + 10)]
        /\ last_key' = "v" => pet' = [pet EXCEPT !.cleanliness = Clamp(pet.cleanliness - 10)]
        /\ last_key' = "Esc" => pet' = [pet EXCEPT !.debug_mode = FALSE]
        /\ last_key' \notin AdjustKeys \cup {"Esc"} => pet' = pet
        /\ pet'.health = pet.health
        /\ pet'.age = pet.age
        /\ pet'.status = pet.status]_vars

\* Hunger raised from 250 in debug mode: the step of 10 saturates at 255.
HungerRaisedInDebugMode ==
    InSession /\ pet.debug_mode /\ typed = <<"h">> /\ pet.hunger = 255 /\ pet.mood = 250

\* A key of the session that reaches the keys of normal mode (src/ui.rs 141-180).
NormalStep ==
    StaysInSession /\ keys' = keys + 1 /\ ~pet.debug_mode /\ pet.status # "Abandoned"

DebugWord == <<"d", "e", "b", "u", "g">>

\* The last five key events are the word.
EndsWithWord(s) == Len(s) >= 5 /\ SubSeq(s, Len(s) - 4, Len(s)) = DebugWord

NotSuspend(k) == k # "CtrlZ"

\* What the keys of the word leave of the pet, and the progress after the word is
\* complete and after debug mode is left.
WordKeysAreSilent ==
    /\ (NormalStep /\ last_key' \in {"d", "e", "b", "u", "g"}) =>
            pet' = [pet EXCEPT !.debug_mode = pet'.debug_mode]
    /\ (NormalStep /\ pet'.debug_mode) => input_buffer' = <<>>
    /\ (StaysInSession /\ pet.debug_mode /\ ~pet'.debug_mode) => input_buffer' = <<>>

\* C19 as stated: a key in normal mode sets debug_mode exactly when it is the g of
\* d, e, b, u, g pressed in a row with no other key event between them; the keys of
\* the word do nothing else to the pet, and the progress is empty once debug mode is
\* entered and once it is left.
DebugEntryOnLiteralSequence ==
    [][/\ NormalStep => (pet'.debug_mode <=> EndsWithWord(typed'))
       /\ WordKeysAreSilent]_vars

\* C19 as amended: as above, the key events other than Ctrl-Z being the ones counted;
\* a Ctrl-Z between two letters of the word leaves the progress as it is.
DebugEntryIgnoringSuspend ==
    [][/\ NormalStep => (pet'.debug_mode <=> EndsWithWord(SelectSeq(typed', NotSuspend)))
       /\ WordKeysAreSilent]_vars

\* Debug mode entered by the word with a suspension in the middle of it.
DebugEnteredAcrossSuspend ==
    InSession /\ pet.debug_mode /\ typed = <<"d", "e", "CtrlZ", "b", "u", "g">>

\* C21: an action key on an awake pet in normal mode has its base effect, each change
\* clamped to [0, 255], followed for a pet of age 51 or more by the elderly modifier:
\* 2 of health on feed, 5 of mood on wash, 3 of health on play.
ElderlyModifiersLayered ==
    [][/\ ActionStep("f") =>
            pet' = [pet EXCEPT !.hunger = Clamp(pet.hunger - 20),
                               !.health = Clamp(Clamp(pet.health + 5) - 2 * ElderlyAt51(pet))]
       /\ ActionStep("w") =>
            pet' = [pet EXCEPT !.cleanliness = 100,
                               !.mood = Clamp(pet.mood - 5 * ElderlyAt51(pet))]
       /\ ActionStep("p") =>
            pet' = [pet EXCEPT !.mood = Clamp(pet.mood + 10),
                               !.hunger = Clamp(pet.hunger + 5),
                               !.health = Clamp(pet.health - 3 * ElderlyAt51(pet))]]_vars

\* A pet of age 51 and health 255 fed at the start of the session: 255, then 253.
ElderlyFedAtFullHealth ==
    InSession /\ pet.age = 51 /\ typed = <<"f">> /\ seconds_elapsed = 0
        /\ elapsed_seconds = 0 /\ disk.health = 255 /\ pet.health = 253

\* C22: the session ends only by a key event that is q or Ctrl-C, and every key event
\* that is q or Ctrl-C ends it, whatever the state of the pet; a tick or another key
\* leaves the session running.
SessionEndsOnlyByQuitKey ==
    [][/\ (pc = "ui" /\ pc' # "ui") => (keys' = keys + 1 /\ last_key' \in {"q", "CtrlC"})
       /\ (pc = "ui" /\ keys' = keys + 1 /\ last_key' \in {"q", "CtrlC"}) => pc' = "off"]_vars

\* The session of an Abandoned pet ended by Ctrl-C after a key that does nothing.
AbandonedQuitByCtrlC ==
    pc = "off" /\ pet.status = "Abandoned" /\ typed = <<"f", "CtrlC">>

\* C23: a key in normal mode on a sleeping pet, other than the sleep key, leaves
\* health, hunger, cleanliness and mood as they were and the pet asleep; feed, wash
\* and play leave the whole pet as it was; the sleep key wakes it.
SleepingPetIgnoresActions ==
    [][(NormalStep /\ pet.is_sleeping) =>
        /\ last_key' # "s" =>
            /\ pet'.health = pet.health
            /\ pet'.hunger = pet.hunger
            /\ pet'.cleanliness = pet.cleanliness
            /\ pet'.mood = pet.mood
            /\ pet'.is_sleeping
        /\ last_key' \in {"f", "w", "p"} => pet' = pet
        /\ last_key' = "s" => pet' = [pet EXCEPT !.is_sleeping = FALSE]]_vars

\* The feed key pressed on a sleeping pet at the start of the session.
FedWhileAsleep ==
    InSession /\ pet.is_sleeping /\ typed = <<"f">> /\ seconds_elapsed = 0
        /\ elapsed_seconds = 0 /\ pet = disk

\* C24: in a session of an awake pet in normal mode where no key is pressed and the
\* ticks keep coming, health reaches 0 and is 0 from then on.
NeglectEndsInDeath == <>[](pet.health = 0)

\* A pet of health 255, fed, clean and happy, dead of neglect.
DeadOfNeglect ==
    /\ InSession
    /\ keys = 0
    /\ pet.health = 0
    /\ disk.health = 255 /\ disk.hunger = 0 /\ disk.cleanliness = 100 /\ disk.mood = 255
    /\ disk.age = 0

====
